---- MODULE Spec2Model ----
(***************************************************************************)
(* Battery Planner integration: the plan coordinator, its three sensors,   *)
(* the create_plan service, the config entry's life cycle and the config   *)
(* flow, modelled from custom_components/home_battery_planner.             *)
(*                                                                         *)
(* The host's DataUpdateCoordinator is a library class.  What the model    *)
(* takes from it: a refresh assigns the value _async_update_data returns   *)
(* to coordinator.data and then calls every listener; a returned value     *)
(* (None included) counts as a successful update, only a raised exception  *)
(* fails it; async_set_updated_data(d) assigns d to coordinator.data and   *)
(* calls every listener; listeners are called in the order the entities    *)
(* were added and an exception raised by one of them propagates to the     *)
(* caller; refresh requests are serialised, one in flight at a time.       *)
(***************************************************************************)
EXTENDS Integers, Sequences, FiniteSets, TLC

VARIABLES
    entry_state,        \* life cycle of the config entry
    hass_data,          \* hass.data[DOMAIN][entry.entry_id]
    service_registered, \* create_plan registered with the host
    current_data,       \* BatteryPlanCoordinator._current_data
    data,               \* DataUpdateCoordinator.data, what the sensors read
    refresh,            \* the coordinator's refresh task
    call,               \* the create_plan invocation
    ha_state,           \* the states the three sensors last wrote
    ever_cached,        \* history: this coordinator got a 200 poll or a push
    flow,               \* the config flow's user step
    hist,               \* history: the last validation answer, the pushes
    multi               \* two config entries sharing the one create_plan service

vars == <<entry_state, hass_data, service_registered, current_data, data,
          refresh, call, ha_state, ever_cached, flow, hist, multi>>

(***************************************************************************)
(* JSON / Python values.  A value is a tagged record; None is JSON null.   *)
(* Costs are integers, in tenths of the currency unit.                     *)
(***************************************************************************)
None == [t |-> "null"]
Num(n) == [t |-> "num", v |-> n]
Str(s) == [t |-> "str", v |-> s]
Obj(f) == [t |-> "obj", v |-> f]
List(s) == [t |-> "list", v |-> s]
Raise(e) == [t |-> "raise", v |-> e]
EmptyObj == Obj([k \in {} |-> None])
EmptyList == List(<<>>)

IsRaise(x) == x.t = "raise"

\* Python truth value of x (bool(x))
Truthy(x) ==
    CASE x.t = "null" -> FALSE
      [] x.t = "num" -> x.v # 0
      [] x.t = "str" -> x.v # ""
      [] x.t = "obj" -> DOMAIN x.v # {}
      [] x.t = "list" -> Len(x.v) > 0

\* d.get(k, default): only a dict has .get
DictGet(d, k, default) ==
    IF IsRaise(d) THEN d
    ELSE IF d.t # "obj" THEN Raise("AttributeError")
    ELSE IF k \in DOMAIN d.v THEN d.v[k]
    ELSE default

\* d[k] with a string key
DictItem(d, k) ==
    IF IsRaise(d) THEN d
    ELSE IF d.t \in {"null", "num"} THEN Raise("TypeError")
    ELSE IF d.t \in {"list", "str"} THEN Raise("TypeError")
    ELSE IF k \in DOMAIN d.v THEN d.v[k]
    ELSE Raise("KeyError")

\* s[0]
FirstItem(s) ==
    IF IsRaise(s) THEN s
    ELSE IF s.t = "list" THEN (IF Len(s.v) > 0 THEN s.v[1] ELSE Raise("IndexError"))
    ELSE IF s.t = "str" THEN (IF s.v # "" THEN Str("c") ELSE Raise("IndexError"))
    ELSE IF s.t = "obj" THEN Raise("KeyError")
    ELSE Raise("TypeError")

\* float(x): a number converts to itself; the model's strings are not numerals
PyFloat(x) ==
    IF IsRaise(x) THEN x
    ELSE IF x.t = "num" THEN x
    ELSE IF x.t = "str" THEN Raise("ValueError")
    ELSE Raise("TypeError")

\* a - b on floats
PySub(a, b) ==
    IF IsRaise(a) THEN a
    ELSE IF IsRaise(b) THEN b
    ELSE Num(a.v - b.v)

(***************************************************************************)
(* The plan payloads the planning service may answer with.                 *)
(***************************************************************************)
Entry(name, power, time) ==
    Obj([time |-> Str(time),
         action |-> Obj([name |-> Str(name), power |-> Num(power)]),
         cost |-> EmptyObj, price |-> EmptyObj, soc |-> EmptyObj])

PlanCharge ==
    Obj([baseline_cost |-> Num(1200), optimized_cost |-> Num(950),
         schedule |-> List(<<Entry("charge", 3, "00:00")>>)])

PlanDischarge ==
    Obj([baseline_cost |-> Num(1000), optimized_cost |-> Num(725),
         schedule |-> List(<<Entry("discharge", 2, "00:00"),
                             Entry("charge", 3, "01:00")>>)])

PlanEmptySchedule ==
    Obj([baseline_cost |-> Num(500), optimized_cost |-> Num(400),
         schedule |-> EmptyList])

PlanNoSchedule ==
    Obj([baseline_cost |-> Num(300), optimized_cost |-> Num(300)])

PlanNoCosts ==
    Obj([schedule |-> List(<<Entry("idle", 0, "00:00")>>)])

PlanNullAction ==
    Obj([baseline_cost |-> Num(800), optimized_cost |-> Num(900),
         schedule |-> List(<<Obj([time |-> Str("00:00"), action |-> None])>>)])

\* every body is a JSON object with at least one member
Payloads ==
    {PlanCharge, PlanDischarge, PlanEmptySchedule, PlanNoSchedule,
     PlanNoCosts, PlanNullAction}

(***************************************************************************)
(* The three sensors (sensor.py): value and attributes read from           *)
(* coordinator.data.  A raised exception is the value Raise(e).            *)
(***************************************************************************)
BatteryPlanSensor_native_value(d) ==
    IF Truthy(d) THEN Str("active") ELSE Str("unknown")

BatteryPlanSensor_attributes(d) ==
    IF Truthy(d)
    THEN LET s == DictGet(d, "schedule", EmptyList)
         IN  IF IsRaise(s) THEN s ELSE Obj([schedule |-> s])
    ELSE EmptyObj

\* the operands of the subtraction swapped
CostDeltaMutant_native_value(d) ==
    IF ~Truthy(d) THEN None
    ELSE PySub(PyFloat(DictGet(d, "optimized_cost", Num(0))),
               PyFloat(DictGet(d, "baseline_cost", Num(0))))

BatteryPlanCostDeltaSensor_native_value(d) ==
    IF ~Truthy(d) THEN None
    ELSE PySub(PyFloat(DictGet(d, "baseline_cost", Num(0))),
               PyFloat(DictGet(d, "optimized_cost", Num(0))))

BatteryPlanCostDeltaSensor_attributes(d) ==
    IF ~Truthy(d) THEN EmptyObj
    ELSE LET s == DictGet(d, "schedule", None)
         IN  IF IsRaise(s) THEN s
             ELSE IF ~Truthy(s) THEN EmptyObj
             ELSE LET b == PyFloat(DictGet(d, "baseline_cost", Num(0)))
                      o == PyFloat(DictGet(d, "optimized_cost", Num(0)))
                  IN  IF IsRaise(b) THEN b
                      ELSE IF IsRaise(o) THEN o
                      ELSE Obj([baseline_cost |-> b, optimized_cost |-> o])

\* the guard on the schedule left out
ActionMutant_native_value(d) ==
    IF ~Truthy(d) THEN None
    ELSE LET first_action == FirstItem(DictItem(d, "schedule"))
         IN  DictGet(DictGet(first_action, "action", EmptyObj), "name", None)

BatteryPlanActionSensor_native_value(d) ==
    IF ~Truthy(d) THEN None
    ELSE LET s == DictGet(d, "schedule", None)
         IN  IF IsRaise(s) THEN s
             ELSE IF ~Truthy(s) THEN None
             ELSE LET first_action == FirstItem(DictItem(d, "schedule"))
                  IN  DictGet(DictGet(first_action, "action", EmptyObj), "name", None)

BatteryPlanActionSensor_attributes(d) ==
    IF ~Truthy(d) THEN EmptyObj
    ELSE LET s == DictGet(d, "schedule", None)
         IN  IF IsRaise(s) THEN s
             ELSE IF ~Truthy(s) THEN EmptyObj
             ELSE LET first_action == FirstItem(DictItem(d, "schedule"))
                      power == DictGet(DictGet(first_action, "action", EmptyObj),
                                       "power", None)
                      cost == DictGet(first_action, "cost", EmptyObj)
                      price == DictGet(first_action, "price", EmptyObj)
                      soc == DictGet(first_action, "soc", EmptyObj)
                      time == DictGet(first_action, "time", None)
                  IN  IF IsRaise(power) THEN power
                      ELSE IF IsRaise(cost) THEN cost
                      ELSE IF IsRaise(price) THEN price
                      ELSE IF IsRaise(soc) THEN soc
                      ELSE IF IsRaise(time) THEN time
                      ELSE Obj([power |-> power, cost |-> cost, price |-> price,
                                soc |-> soc, time |-> time])

\* the state an entity writes: its value and its attributes, or the exception
EntityState(value, attrs) ==
    IF IsRaise(value) THEN value
    ELSE IF IsRaise(attrs) THEN attrs
    ELSE [t |-> "state", state |-> value, attrs |-> attrs]

StatusState(d) ==
    EntityState(BatteryPlanSensor_native_value(d), BatteryPlanSensor_attributes(d))
CostDeltaState(d) ==
    EntityState(BatteryPlanCostDeltaSensor_native_value(d),
                BatteryPlanCostDeltaSensor_attributes(d))
ActionState(d) ==
    EntityState(BatteryPlanActionSensor_native_value(d),
                BatteryPlanActionSensor_attributes(d))

Unwritten == [t |-> "unwritten"]
NoEntities == [status |-> Unwritten, cost_delta |-> Unwritten, action |-> Unwritten]

\* async_add_entities: each entity writes its first state; one that raises
\* is logged and has no state
AddEntities(d) ==
    [status |-> IF IsRaise(StatusState(d)) THEN Unwritten ELSE StatusState(d),
     cost_delta |-> IF IsRaise(CostDeltaState(d)) THEN Unwritten ELSE CostDeltaState(d),
     action |-> IF IsRaise(ActionState(d)) THEN Unwritten ELSE ActionState(d)]

\* _handle_coordinator_update of the three entities, in the order they were
\* added; the first exception stops the round and reaches the caller
UpdateListeners(d, old) ==
    IF IsRaise(StatusState(d)) THEN [states |-> old, raised |-> TRUE]
    ELSE IF IsRaise(CostDeltaState(d))
    THEN [states |-> [old EXCEPT !.status = StatusState(d)], raised |-> TRUE]
    ELSE IF IsRaise(ActionState(d))
    THEN [states |-> [old EXCEPT !.status = StatusState(d),
                                 !.cost_delta = CostDeltaState(d)],
          raised |-> TRUE]
    ELSE [states |-> [status |-> StatusState(d), cost_delta |-> CostDeltaState(d),
                      action |-> ActionState(d)],
          raised |-> FALSE]

(***************************************************************************)
(* What a request to the planning service can come to.                     *)
(***************************************************************************)
Ok200(p) == [kind |-> "200", body |-> p]
Failures ==
    {[kind |-> "non200", body |-> None],       \* resp.status != 200
     [kind |-> "ClientError", body |-> None],  \* aiohttp.ClientError
     [kind |-> "Exception", body |-> None]}    \* any other exception
PlanOutcomes == {Ok200(p) : p \in Payloads} \cup Failures

(***************************************************************************)
(* BatteryPlanCoordinator (sensor.py)                                      *)
(***************************************************************************)
Idle == [pc |-> "idle", first |-> FALSE, push_during |-> None]
AwaitingPost(first) == [pc |-> "awaiting_post", first |-> first, push_during |-> None]

\* _async_update_data, after the request: the value it returns
UpdateDataReturn(o) ==
    IF o.kind = "200" THEN o.body ELSE None

\* _async_update_data, after the request: self._current_data
UpdateDataCache(cur, o) ==
    IF o.kind = "200" THEN o.body ELSE cur

\* _async_update_data catches every exception: the update never fails
UpdateDataRaises(o) == FALSE

\* a 200 poll or a push has handed this coordinator a payload
Cached(o) == o.kind = "200"

(***************************************************************************)
(* Setup of the config entry (__init__.py) and of its sensors (sensor.py)  *)
(***************************************************************************)
NoContext == [present |-> FALSE, coordinator |-> FALSE, update_callback |-> FALSE]
FlowIdle == [pc |-> "idle", text |-> <<>>, errors |-> "none", entry_created |-> FALSE,
             request_sent |-> FALSE, outcome |-> "none"]

\* what the validation request of __init__.async_setup_entry can come to
ValidationAnswers == {"200", "non200", "ClientError"}

\* the status check left out: only a transport error stops the setup
TokenValidMutant(o) == o # "ClientError"

\* the validation lets the setup go on: status 200, no aiohttp.ClientError
TokenValid(o) == o = "200"

\* nothing written by any sensor in answer to a push yet
NoWrites == [status |-> 0, cost_delta |-> 0, action |-> 0]

\* no refresh has started yet
NoPoll == [push |-> None, src |-> "none", requests |-> 0, outcome |-> None,
           returned |-> None, done |-> FALSE, pushed_since |-> FALSE]

\* a refresh starts: what the cache held (cur), where that came from and the
\* last push before it; with a cached payload it returns at once, without a
\* request, otherwise it posts one request
PollStart(h, cur) ==
    [push |-> h.last_push, src |-> h.cache_src,
     requests |-> IF cur # None THEN 0 ELSE 1, outcome |-> None,
     returned |-> cur, done |-> cur # None, pushed_since |-> FALSE]

\* the request of the refresh resolves with o and the refresh returns
PollEnd(p, o) ==
    [p EXCEPT !.outcome = o, !.returned = UpdateDataReturn(o), !.done = TRUE]

\* where the cached payload comes from after a request resolved with o
SrcAfterPoll(src, o) == IF o.kind = "200" THEN "poll" ELSE src

\* the history of a coordinator that has just been built
NewCoordinator(validation) ==
    [validation |-> validation, last_push |-> None, cache_src |-> "none",
     pushes |-> 0, writes |-> NoWrites, poll |-> NoPoll]

\* the pushes followed per coordinator
MaxPushes == 2

\* which sensors write a state in a round of _handle_coordinator_update
\* on d: those before the first one that raises
ListenersWrite(d) ==
    [status |-> IF IsRaise(StatusState(d)) THEN 0 ELSE 1,
     cost_delta |-> IF IsRaise(StatusState(d)) \/ IsRaise(CostDeltaState(d))
                    THEN 0 ELSE 1,
     action |-> IF IsRaise(StatusState(d)) \/ IsRaise(CostDeltaState(d))
                   \/ IsRaise(ActionState(d))
                THEN 0 ELSE 1]

\* update_from_manual_data(d) as the history records it
PushRecorded(h, d) ==
    [h EXCEPT !.last_push = d, !.cache_src = "push", !.pushes = @ + 1,
              !.writes = [s \in DOMAIN @ |-> @[s] + ListenersWrite(d)[s]],
              !.poll = [@ EXCEPT !.pushed_since = TRUE]]

\* two config entries of the integration, each with its own credentials
Entries == {"A", "B"}
Token(e) == <<"api_token", e>>
System(e) == <<"system_id", e>>

\* before any setup: no context, no coordinator, no service handler
TwoEntriesInit ==
    [state |-> [e \in Entries |-> "not_loaded"],
     ctx |-> [e \in Entries |-> NoContext],
     cache |-> [e \in Entries |-> None],
     pub |-> [e \in Entries |-> None],
     handler |-> "none",
     last_setup |-> "none",
     call |-> [pc |-> "idle", owner |-> "none", token |-> "none", system |-> "none",
               update_sensors |-> "omitted", body |-> None, result |-> None]]

Init ==
    /\ entry_state = "not_loaded"
    /\ hass_data = NoContext
    /\ service_registered = FALSE
    /\ current_data = None
    /\ data = None
    /\ refresh = Idle
    /\ call = [pc |-> "idle", update_sensors |-> "omitted", body |-> None, result |-> None]
    /\ ha_state = NoEntities
    /\ ever_cached = FALSE
    /\ flow = FlowIdle
    /\ hist = NewCoordinator("none")
    /\ multi = TwoEntriesInit

\* __init__.async_setup_entry up to the token validation request
SetupEntry ==
    /\ entry_state \in {"not_loaded", "setup_retry"}
    /\ entry_state' = "validating"
    /\ hist' = [hist EXCEPT !.validation = "pending"]
    /\ UNCHANGED <<hass_data, service_registered, current_data, data, refresh, call,
                   ha_state, ever_cached, flow, multi>>

\* the validation answers with a status other than 200 or fails in transport:
\* ConfigEntryNotReady
SetupEntryNotReady(o) ==
    /\ entry_state = "validating"
    /\ ~TokenValid(o)
    /\ entry_state' = "setup_retry"
    /\ hist' = [hist EXCEPT !.validation = o]
    /\ UNCHANGED <<hass_data, service_registered, current_data, data, refresh, call,
                   ha_state, ever_cached, flow, multi>>

\* the validation answers 200: the context is stored, the service registered,
\* and the sensor platform builds its coordinator and starts the first refresh
SetupEntryValidated(o) ==
    /\ entry_state = "validating"
    /\ TokenValid(o)
    /\ entry_state' = "sensor_setup"
    /\ hist' = [NewCoordinator(o) EXCEPT !.poll = PollStart(NewCoordinator(o), None)]
    /\ hass_data' = [present |-> TRUE, coordinator |-> FALSE, update_callback |-> FALSE]
    /\ service_registered' = TRUE
    /\ current_data' = None
    /\ data' = None
    /\ ever_cached' = FALSE
    /\ refresh' = AwaitingPost(TRUE)
    /\ UNCHANGED <<call, ha_state, flow, multi>>

\* the first refresh's request resolves and sensor.async_setup_entry goes on
FirstRefreshDone(o) ==
    /\ entry_state = "sensor_setup"
    /\ refresh.pc = "awaiting_post" /\ refresh.first
    /\ current_data' = UpdateDataCache(current_data, o)
    /\ ever_cached' = (ever_cached \/ Cached(o))
    /\ refresh' = Idle
    /\ IF UpdateDataRaises(o)
       THEN /\ entry_state' = "setup_retry"
            /\ UNCHANGED <<hass_data, data, ha_state>>
       ELSE /\ data' = UpdateDataReturn(o)
            /\ hass_data' = [present |-> TRUE, coordinator |-> hass_data.present,
                             update_callback |-> TRUE]
            /\ ha_state' = AddEntities(data')
            /\ entry_state' = "loaded"
    /\ hist' = [hist EXCEPT !.poll = PollEnd(@, o),
                            !.cache_src = SrcAfterPoll(@, o)]
    /\ UNCHANGED <<service_registered, call, flow, multi>>

\* a refresh requested for a loaded entry (the host's update_entity service)
RequestRefresh ==
    /\ entry_state = "loaded"
    /\ refresh.pc = "idle"
    /\ IF current_data # None
       THEN /\ data' = current_data
            /\ ha_state' = UpdateListeners(data', ha_state).states
            /\ UNCHANGED refresh
       ELSE /\ refresh' = AwaitingPost(FALSE)
            /\ UNCHANGED <<data, ha_state>>
    /\ hist' = [hist EXCEPT !.poll = PollStart(hist, current_data)]
    /\ UNCHANGED <<entry_state, hass_data, service_registered, current_data, call,
                   ever_cached, flow, multi>>

\* the request of a later refresh resolves
RefreshDone(o) ==
    /\ entry_state = "loaded"
    /\ refresh.pc = "awaiting_post" /\ ~refresh.first
    /\ current_data' = UpdateDataCache(current_data, o)
    /\ ever_cached' = (ever_cached \/ Cached(o))
    /\ refresh' = Idle
    /\ IF UpdateDataRaises(o)
       THEN UNCHANGED <<data, ha_state>>
       ELSE /\ data' = UpdateDataReturn(o)
            /\ ha_state' = UpdateListeners(data', ha_state).states
    /\ hist' = [hist EXCEPT !.poll = PollEnd(@, o),
                            !.cache_src = SrcAfterPoll(@, o)]
    /\ UNCHANGED <<entry_state, hass_data, service_registered, call, flow, multi>>

\* async_unload_entry: the platforms are unloaded and the context is popped
UnloadEntry ==
    /\ entry_state = "loaded"
    /\ entry_state' = "not_loaded"
    /\ hass_data' = NoContext
    /\ ha_state' = NoEntities
    /\ refresh' = Idle
    /\ UNCHANGED <<service_registered, current_data, data, call, ever_cached, flow,
                   hist, multi>>

(***************************************************************************)
(* The create_plan service (__init__.py, create_battery_plan)              *)
(***************************************************************************)
Failure(e) == [t |-> "result", success |-> FALSE, error |-> e]

\* call.data.get("update_sensors", True)
UpdateSensors(u) == u # "false"

\* response_data, or the exception its construction raises
ResponseData(result) ==
    LET b == PyFloat(DictItem(result, "baseline_cost"))
        o == PyFloat(DictItem(result, "optimized_cost"))
        s == DictItem(result, "schedule")
    IN  IF IsRaise(b) THEN b
        ELSE IF IsRaise(o) THEN o
        ELSE IF IsRaise(s) THEN s
        ELSE [t |-> "result", success |-> TRUE, baseline_cost |-> b,
              optimized_cost |-> o, schedule |-> s]

\* update_sensors defaulting to False
CreatePlanPushesMutant(o, u, ctx) ==
    /\ o.kind = "200"
    /\ ~IsRaise(ResponseData(o.body))
    /\ u = "true"
    /\ ctx.present
    /\ ctx.update_callback

\* whether the handler reaches update_callback(result)
CreatePlanPushes(o, u, ctx) ==
    /\ o.kind = "200"
    /\ ~IsRaise(ResponseData(o.body))
    /\ UpdateSensors(u)
    /\ ctx.present
    /\ ctx.update_callback

\* what the handler returns
CreatePlanResult(o, u, ctx, listener_raised) ==
    IF o.kind = "non200" THEN Failure("HTTP")
    ELSE IF o.kind # "200" THEN Failure(o.kind)
    ELSE IF IsRaise(ResponseData(o.body)) THEN Failure(ResponseData(o.body).v)
    ELSE IF ~UpdateSensors(u) THEN ResponseData(o.body)
    ELSE IF ~ctx.present THEN Failure("KeyError")
    ELSE IF ~ctx.update_callback THEN ResponseData(o.body)
    ELSE IF listener_raised THEN Failure("listener")
    ELSE ResponseData(o.body)

\* the service is called: the handler reads call.data and posts the request
\* (the model follows one invocation at a time)
CreatePlan(has_fields, u) ==
    /\ service_registered
    /\ call.pc # "awaiting_post"
    /\ call' = IF has_fields
               THEN [pc |-> "awaiting_post", update_sensors |-> u, body |-> None,
                     result |-> None]
               ELSE [pc |-> "raised", update_sensors |-> u, body |-> None,
                     result |-> Raise("KeyError")]
    /\ UNCHANGED <<entry_state, hass_data, service_registered, current_data, data,
                   refresh, ha_state, ever_cached, flow, hist, multi>>

\* the request resolves and the handler returns; with update_sensors it pushes
\* the plan through the stored callback (update_from_manual_data)
CreatePlanDone(o) ==
    /\ call.pc = "awaiting_post"
    /\ LET pushes == CreatePlanPushes(o, call.update_sensors, hass_data)
           upd == UpdateListeners(o.body, ha_state)
       IN  /\ pushes => hist.pushes < MaxPushes
           /\ call' = [pc |-> "returned", update_sensors |-> call.update_sensors,
                       body |-> o.body,
                       result |-> CreatePlanResult(o, call.update_sensors, hass_data,
                                                   pushes /\ upd.raised)]
           /\ IF pushes
              THEN /\ current_data' = o.body
                   /\ data' = o.body
                   /\ ha_state' = upd.states
                   /\ ever_cached' = TRUE
                   /\ hist' = PushRecorded(hist, o.body)
                   /\ refresh' = IF refresh.pc = "awaiting_post"
                                 THEN [refresh EXCEPT !.push_during = o.body]
                                 ELSE refresh
              ELSE UNCHANGED <<current_data, data, ha_state, ever_cached, refresh,
                               hist>>
    /\ UNCHANGED <<entry_state, hass_data, service_registered, flow, multi>>

(***************************************************************************)
(* Two config entries: hass.data[DOMAIN] holds one context per entry, the  *)
(* host holds one handler per service name.                                *)
(***************************************************************************)
single_vars == <<entry_state, hass_data, service_registered, current_data, data,
                 refresh, call, ha_state, ever_cached, flow, hist>>

\* the plans the planning service answers with in the two-entry model
TwoOutcomes == {Ok200(PlanCharge), Ok200(PlanDischarge), Ok200(PlanNullAction)}
                   \cup Failures

\* a handler already registered is kept
RegisterServiceMutant(old, e) == IF old = "none" THEN e ELSE old

\* hass.services.async_register(DOMAIN, "create_plan", create_battery_plan):
\* the handler registered under the name is the one registered last; its
\* closure holds the entry e of the setup that registered it
RegisterService(old, e) == e

\* __init__.async_setup_entry of entry e up to the token validation request
SetupTwo(e) ==
    /\ multi.state[e] = "not_loaded"
    /\ multi' = [multi EXCEPT !.state[e] = "validating"]
    /\ UNCHANGED single_vars

\* the validation of entry e answers: not ready, or the context of e is
\* stored, the handler of e registered and the coordinator of e built
SetupTwoValidated(e, o) ==
    /\ multi.state[e] = "validating"
    /\ multi' = IF ~TokenValid(o)
                THEN [multi EXCEPT !.state[e] = "not_loaded"]
                ELSE [multi EXCEPT
                        !.state[e] = "sensor_setup",
                        !.ctx[e] = [present |-> TRUE, coordinator |-> FALSE,
                                    update_callback |-> FALSE],
                        !.cache[e] = None,
                        !.pub[e] = None,
                        !.handler = RegisterService(@, e),
                        !.last_setup = e]
    /\ UNCHANGED single_vars

\* the first refresh of entry e resolves; its sensors and callback are added
FirstRefreshTwo(e, o) ==
    /\ multi.state[e] = "sensor_setup"
    /\ multi' = [multi EXCEPT
                   !.state[e] = "loaded",
                   !.cache[e] = UpdateDataCache(@, o),
                   !.pub[e] = UpdateDataReturn(o),
                   !.ctx[e] = [present |-> TRUE, coordinator |-> TRUE,
                               update_callback |-> TRUE]]
    /\ UNCHANGED single_vars

\* async_unload_entry of entry e
UnloadTwo(e) ==
    /\ multi.state[e] = "loaded"
    /\ multi' = [multi EXCEPT !.state[e] = "not_loaded", !.ctx[e] = NoContext]
    /\ UNCHANGED single_vars

\* create_plan is called: the registered handler posts the request with the
\* token and the system id of the entry in its closure
CreatePlanTwo(u) ==
    /\ multi.handler # "none"
    /\ multi.call.pc # "awaiting_post"
    /\ multi' = [multi EXCEPT
                   !.call = [pc |-> "awaiting_post", owner |-> multi.handler,
                             token |-> Token(multi.handler),
                             system |-> System(multi.handler),
                             update_sensors |-> u, body |-> None, result |-> None]]
    /\ UNCHANGED single_vars

\* the request resolves: the handler looks up the callback of its own entry
CreatePlanTwoDone(o) ==
    /\ multi.call.pc = "awaiting_post"
    /\ LET e == multi.call.owner
           u == multi.call.update_sensors
           pushes == CreatePlanPushes(o, u, multi.ctx[e])
           raised == UpdateListeners(o.body, NoEntities).raised
           done == [multi.call EXCEPT
                      !.pc = "returned", !.body = o.body,
                      !.result = CreatePlanResult(o, u, multi.ctx[e],
                                                  pushes /\ raised)]
       IN  multi' = IF pushes
                    THEN [multi EXCEPT !.call = done, !.cache[e] = o.body,
                                       !.pub[e] = o.body]
                    ELSE [multi EXCEPT !.call = done]
    /\ UNCHANGED single_vars

(***************************************************************************)
(* The config flow's user step (config_flow.py)                            *)
(***************************************************************************)
MaxTextLen == 4
Chars == {"1", "-", ".", ",", " ", "a"}

RECURSIVE Texts(_)
Texts(n) ==
    IF n = 0 THEN {<<>>}
    ELSE Texts(n - 1) \cup {Append(s, c) : s \in {x \in Texts(n - 1) : Len(x) = n - 1},
                                            c \in Chars}

\* str.split(','): the pieces between the commas
RECURSIVE Split(_)
Split(s) ==
    IF \A i \in 1..Len(s) : s[i] # ","
    THEN <<s>>
    ELSE LET k == CHOOSE i \in 1..Len(s) :
                      s[i] = "," /\ \A j \in 1..(i - 1) : s[j] # ","
         IN  <<SubSeq(s, 1, k - 1)>> \o Split(SubSeq(s, k + 1, Len(s)))

\* str.strip()
RECURSIVE Strip(_)
Strip(s) ==
    IF s = <<>> THEN s
    ELSE IF s[1] = " " THEN Strip(Tail(s))
    ELSE IF s[Len(s)] = " " THEN Strip(SubSeq(s, 1, Len(s) - 1))
    ELSE s

\* whether float(s) accepts s: an optional sign, digits with at most one point
FloatAccepts(s) ==
    LET body == IF s # <<>> /\ s[1] = "-" THEN Tail(s) ELSE s
    IN  /\ \A i \in 1..Len(body) : body[i] \in {"1", "."}
        /\ \E i \in 1..Len(body) : body[i] = "1"
        /\ Cardinality({i \in 1..Len(body) : body[i] = "."}) <= 1

\* the conversion of the pieces left unchecked
convert_power_kw_unchecked(text) ==
    List([i \in 1..Len(Split(text)) |-> Strip(Split(text)[i])])

\* convert_power_kw_string: the numerals of the list, or ValueError
convert_power_kw_string(text) ==
    LET pieces == Split(text)
    IN  IF \A i \in 1..Len(pieces) : FloatAccepts(Strip(pieces[i]))
        THEN List([i \in 1..Len(pieces) |-> Strip(pieces[i])])
        ELSE Raise("ValueError")

\* response.status == 200, another status, a connection failure, a base_url
\* aiohttp rejects (InvalidURL, a ValueError), any other exception
ValidationOutcomes ==
    {"200", "non200", "ClientConnectionError", "InvalidURL", "Exception"}

\* validate_input and async_step_user: the error the form shows
FlowError(o) ==
    CASE o = "200" -> "none"
      [] o = "non200" -> "invalid_auth"
      [] o = "ClientConnectionError" -> "cannot_connect"
      [] o = "InvalidURL" -> "invalid_power_kw"
      [] OTHER -> "unknown"

\* the user submits the form: the profile is parsed, then the token validated
StepUser ==
    /\ flow.pc = "idle"
    /\ flow' = IF IsRaise(convert_power_kw_string(flow.text))
               THEN [flow EXCEPT !.pc = "form", !.errors = "invalid_power_kw"]
               ELSE [flow EXCEPT !.pc = "validating", !.request_sent = TRUE]
    /\ UNCHANGED <<entry_state, hass_data, service_registered, current_data, data,
                   refresh, call, ha_state, ever_cached, hist, multi>>

\* the validation request resolves: an entry is created or the form shown again
StepUserValidated(o) ==
    /\ flow.pc = "validating"
    /\ flow' = [flow EXCEPT !.pc = IF FlowError(o) = "none" THEN "done" ELSE "form",
                            !.errors = FlowError(o),
                            !.outcome = o,
                            !.entry_created = (FlowError(o) = "none")]
    /\ UNCHANGED <<entry_state, hass_data, service_registered, current_data, data,
                   refresh, call, ha_state, ever_cached, hist, multi>>

(***************************************************************************)
(* Specifications                                                          *)
(***************************************************************************)
Next ==
    \/ SetupEntry
    \/ \E o \in ValidationAnswers : SetupEntryNotReady(o)
    \/ \E o \in ValidationAnswers : SetupEntryValidated(o)
    \/ \E o \in PlanOutcomes : FirstRefreshDone(o)
    \/ RequestRefresh
    \/ \E o \in PlanOutcomes : RefreshDone(o)
    \/ UnloadEntry
    \/ \E has_fields \in BOOLEAN, u \in {"omitted", "true", "false"} :
          CreatePlan(has_fields, u)
    \/ \E o \in PlanOutcomes : CreatePlanDone(o)

Spec == Init /\ [][Next]_vars

\* the form as the user filled it in: any power_kw text up to MaxTextLen
InitFlow ==
    /\ entry_state = "not_loaded"
    /\ hass_data = NoContext
    /\ service_registered = FALSE
    /\ current_data = None
    /\ data = None
    /\ refresh = Idle
    /\ call = [pc |-> "idle", update_sensors |-> "omitted", body |-> None, result |-> None]
    /\ ha_state = NoEntities
    /\ ever_cached = FALSE
    /\ hist = NewCoordinator("none")
    /\ multi = TwoEntriesInit
    /\ \E text \in Texts(MaxTextLen) : flow = [FlowIdle EXCEPT !.text = text]

NextFlow ==
    \/ StepUser
    \/ \E o \in ValidationOutcomes : StepUserValidated(o)

SpecFlow == InitFlow /\ [][NextFlow]_vars

NextTwo ==
    \/ \E e \in Entries : SetupTwo(e)
    \/ \E e \in Entries, o \in ValidationAnswers : SetupTwoValidated(e, o)
    \/ \E e \in Entries, o \in TwoOutcomes : FirstRefreshTwo(e, o)
    \/ \E e \in Entries : UnloadTwo(e)
    \/ \E u \in {"omitted", "true", "false"} : CreatePlanTwo(u)
    \/ \E o \in TwoOutcomes : CreatePlanTwoDone(o)

SpecTwo == Init /\ [][NextTwo]_vars

(***************************************************************************)
(* Properties                                                              *)
(***************************************************************************)
\* what the three sensors read from d
Projections(d) ==
    <<BatteryPlanSensor_native_value(d), BatteryPlanCostDeltaSensor_native_value(d),
      BatteryPlanActionSensor_native_value(d)>>

\* C1: a refresh whose plan request fails leaves the cached payload unchanged
\* and returns the previous value: where a payload has been cached, the status,
\* cost-delta and current-action projections read after the failed refresh are
\* the ones read before it.
C1_FailedRefreshKeepsProjections ==
    [][\A o \in Failures :
          (RefreshDone(o) /\ current_data # None)
              => /\ current_data' = current_data
                 /\ data' = data
                 /\ Projections(data') = Projections(data)]_vars

\* C2: last-applied-wins: when a push was applied while a poll was in flight,
\* the cached payload and the published data are still the pushed payload after
\* the poll resolves, with a payload or with a failure.
C2_LastAppliedWins ==
    [][\A o \in PlanOutcomes :
          (RefreshDone(o) /\ refresh.push_during # None)
              => /\ current_data' = refresh.push_during
                 /\ data' = refresh.push_during]_vars

\* C3: the initial refresh must succeed or setup fails: whenever sensor setup
\* has completed (coordinator and update callback registered, entities added),
\* the coordinator holds a payload.
C3_SetupCompleteHoldsPayload ==
    (hass_data.update_callback \/ hass_data.coordinator \/ entry_state = "loaded")
        => (current_data # None /\ data # None)

\* C4: every invocation of create_plan returns a structured result, success or
\* failure with an error text, and never raises to its caller.
C4_CreatePlanNeverRaises ==
    call.pc \in {"returned", "raised"}
        => /\ call.pc = "returned"
           /\ call.result.t = "result"
           /\ (call.result.success \/ call.result.error # "")

\* the states the three entities write when all of them read d
WrittenFrom(d) ==
    [status |-> StatusState(d), cost_delta |-> CostDeltaState(d),
     action |-> ActionState(d)]

\* create_plan has just returned success with update_sensors true or omitted
ReturnsSuccessWithUpdate ==
    /\ call.pc = "awaiting_post"
    /\ call'.pc = "returned"
    /\ call'.result.success
    /\ UpdateSensors(call'.update_sensors)

\* C5 as stated: whenever create_plan returns success=true with update_sensors
\* true or omitted, the cached payload is the plan just obtained and the
\* sensors have been notified, at whatever point of the entry's life cycle.
C5_SuccessMeansPushedAlways ==
    [][ReturnsSuccessWithUpdate
          => /\ current_data' = call'.body
             /\ data' = call'.body
             /\ ha_state' = WrittenFrom(call'.body)]_vars

\* C5 amended: whenever create_plan returns success=true with update_sensors
\* true or omitted and the entry's update callback is registered (the sensor
\* platform has finished setting up), the cached payload and the published
\* data are the plan just obtained and the three sensors have written their
\* states from it.
C5_SuccessMeansPushed ==
    [][(ReturnsSuccessWithUpdate /\ hass_data.update_callback)
          => /\ current_data' = call'.body
             /\ data' = call'.body
             /\ ha_state' = WrittenFrom(call'.body)]_vars

C5_Witness ==
    /\ call.pc = "returned"
    /\ call.result.success
    /\ call.update_sensors = "omitted"
    /\ hass_data.update_callback
    /\ current_data = call.body
    /\ data = PlanDischarge
    /\ ha_state = WrittenFrom(PlanDischarge)

\* C6: once data exists it is never cleared: for one coordinator, after the
\* published data has been non-empty, no refresh or push makes the published
\* data or the cached payload empty again.
C6_NeverCleared ==
    [][(entry_state = "loaded" /\ entry_state' = "loaded" /\ data # None)
          => (data' # None /\ current_data' # None)]_vars

\* C7: the status sensor reads "unknown" only when no data has ever been
\* cached: status = "unknown" implies that no refresh has succeeded and no push
\* has been applied to this coordinator.
C7_UnknownOnlyBeforeData ==
    (entry_state = "loaded" /\ BatteryPlanSensor_native_value(data) = Str("unknown"))
        => ~ever_cached

\* no data, a payload without a schedule key, or one with an empty schedule
NoSchedule(d) ==
    \/ d = None
    \/ d.t = "obj" /\ "schedule" \notin DOMAIN d.v
    \/ d.t = "obj" /\ "schedule" \in DOMAIN d.v /\ d.v.schedule = EmptyList

\* d carries both costs as numbers
HasCosts(d) ==
    /\ d.t = "obj"
    /\ {"baseline_cost", "optimized_cost"} \subseteq DOMAIN d.v
    /\ d.v.baseline_cost.t = "num"
    /\ d.v.optimized_cost.t = "num"

BadProfiles ==
    {<<>>, <<"a">>, <<"1", ",", "a">>, <<"1", ",", ",", "1">>, <<"1", " ", "1">>,
     <<"-">>, <<".">>, <<"1", ",">>, <<"-", "-", "1">>}
GoodProfiles ==
    {<<"1">>, <<"1", ",", "-", "1">>, <<" ", "1", ".", "1">>, <<"-", ".", "1">>,
     <<"1", ".", ",", "1">>, <<"1", ",", " ", "1">>}

\* C10: the config flow rejects bad input with distinct errors and creates an
\* entry only when everything passed: an unparsable power_kw text gives
\* invalid_power_kw with no request sent; a parsable one with a non-200
\* validation gives invalid_auth; a connection failure gives cannot_connect;
\* none of the three creates an entry; an entry is created only if the
\* profile parsed and the validation answered 200.
C10_FlowRejectsBadInput ==
    /\ (flow.pc # "idle" /\ flow.text \in BadProfiles)
          => /\ flow.errors = "invalid_power_kw"
             /\ ~flow.request_sent
             /\ flow.pc = "form"
    /\ (flow.pc # "idle" /\ flow.text \in GoodProfiles) => flow.request_sent
    /\ (flow.pc # "idle" /\ ~flow.request_sent)
          => (flow.errors = "invalid_power_kw" /\ flow.pc = "form")
    /\ flow.outcome = "non200" => (flow.errors = "invalid_auth" /\ flow.pc = "form")
    /\ flow.outcome = "ClientConnectionError"
          => (flow.errors = "cannot_connect" /\ flow.pc = "form")
    /\ flow.errors # "none" => ~flow.entry_created
    /\ flow.entry_created
          => /\ flow.outcome = "200"
             /\ flow.request_sent
             /\ flow.text \notin BadProfiles
             /\ ~IsRaise(convert_power_kw_string(flow.text))

C10_Witness ==
    /\ flow.pc = "form"
    /\ flow.text = <<"1", ",", "a">>
    /\ flow.errors = "invalid_power_kw"
    /\ ~flow.request_sent
    /\ ~flow.entry_created

\* C11: a validation that answers with a status other than 200 or fails in
\* transport aborts the setup as not ready and stores nothing: from that
\* answer until the next setup attempt the entry waits for a retry, no
\* per-entry context exists, no sensor has been added, no refresh has been
\* started, and no step changes whether create_plan is registered.
C11_NotReadyStoresNothing ==
    [][hist'.validation \in {"non200", "ClientError"}
       => /\ entry_state' = "setup_retry"
          /\ hass_data' = NoContext
          /\ ha_state' = NoEntities
          /\ refresh' = Idle
          /\ service_registered' = service_registered]_vars

\* a first setup was refused: the service has never been registered
C11_Witness ==
    /\ hist.validation \in {"non200", "ClientError"}
    /\ entry_state = "setup_retry"
    /\ ~service_registered
    /\ hass_data = NoContext

\* C12: unload destroys the entry's credentials and all derived state: the
\* unload pops the per-entry context; while the entry has no context no
\* create_plan invocation posts a request with its token and nothing changes
\* the cached or the published plan; a setup after it starts from a fresh
\* context and an empty coordinator.
C12_UnloadDestroysCredentials ==
    [][/\ (entry_state = "loaded" /\ entry_state' = "not_loaded"
             => hass_data' = NoContext)
       /\ (~hass_data.present /\ ~hass_data'.present
             => /\ (call'.pc = "awaiting_post" => call.pc = "awaiting_post")
                /\ current_data' = current_data
                /\ data' = data)
       /\ (~hass_data.present /\ hass_data'.present
             => /\ hass_data' = [present |-> TRUE, coordinator |-> FALSE,
                                 update_callback |-> FALSE]
                /\ current_data' = None
                /\ data' = None
                /\ ha_state' = NoEntities)]_vars

\* C13: a push pre-empts the next poll: a refresh that starts after a push of
\* P (and before another push) issues no plan request and returns P, and
\* until the next push the published data is P.
C13_PushPreemptsPoll ==
    hist.poll.push # None
    => /\ hist.poll.requests = 0
       /\ hist.poll.returned = hist.poll.push
       /\ (~hist.poll.pushed_since => data = hist.poll.push)

\* C14: a refresh that starts when the cache is empty or holds only a payload
\* obtained by an earlier poll issues exactly one plan request and, on a 200
\* answer, replaces the cached payload with the new response and returns it.
C14_PollFetches ==
    [][/\ (hist'.poll # hist.poll /\ ~hist'.poll.pushed_since
           /\ hist'.poll.src # "push"
             => hist'.poll.requests = 1)
       /\ (~hist.poll.done /\ hist'.poll.done /\ hist'.poll.outcome.kind = "200"
             => /\ hist'.poll.returned = hist'.poll.outcome.body
                /\ current_data' = hist'.poll.outcome.body
                /\ data' = hist'.poll.outcome.body)]_vars

\* C15: every push makes each of the three sensors write its state exactly
\* once, from the payload pushed, whether or not the payload differs from the
\* one before: two pushes of P leave the projections of P both times and two
\* writes by each sensor.
C15_EveryPushNotifiesAll ==
    [][hist'.pushes = hist.pushes + 1
       => /\ data' = hist'.last_push
          /\ Projections(data') = Projections(hist'.last_push)
          /\ \A s \in {"status", "cost_delta", "action"} :
                hist'.writes[s] = hist.writes[s] + 1]_vars

\* entry 0 of d's schedule carries an action object with a name
WellFormedEntry0(d) ==
    /\ d.t = "obj"
    /\ "schedule" \in DOMAIN d.v
    /\ d.v.schedule.t = "list"
    /\ Len(d.v.schedule.v) > 0
    /\ d.v.schedule.v[1].t = "obj"
    /\ "action" \in DOMAIN d.v.schedule.v[1].v
    /\ d.v.schedule.v[1].v.action.t = "obj"
    /\ "name" \in DOMAIN d.v.schedule.v[1].v.action.v

\* C16: the three projections are total: whatever payload the coordinator
\* holds or publishes, reading the value and the attributes of the status,
\* cost-delta and current-action sensors never raises; when entry 0 is well
\* formed the current-action value is the action name of entry 0.
C16_ProjectionsTotal ==
    \A d \in {data, current_data} :
        /\ ~IsRaise(StatusState(d))
        /\ ~IsRaise(CostDeltaState(d))
        /\ ~IsRaise(ActionState(d))
        /\ WellFormedEntry0(d)
             => BatteryPlanActionSensor_native_value(d)
                    = d.v.schedule.v[1].v.action.v.name

\* C18: create_plan changes the coordinator's payload only when it returns
\* success=true with update_sensors true or omitted: an invocation with
\* update_sensors=false, and every invocation that returns success=false,
\* leaves the cached payload and the published data as they were.
C18_FailureLeavesCacheAlone ==
    [][/\ call.pc = "awaiting_post"
       /\ call'.pc = "returned"
       /\ (~call'.result.success \/ ~UpdateSensors(call'.update_sensors))
       => /\ current_data' = current_data
          /\ data' = data]_vars

\* C19: the coordinator's two copies of the plan never disagree: once a
\* refresh or a push has completed, _current_data equals coordinator.data.
C19_CopiesAgree ==
    (hist.poll.done \/ hist.pushes > 0) => current_data = data

\* C17: with two entries, create_plan serves only the entry whose setup ran
\* last: an invocation posts to that entry's system with that entry's token,
\* and when it returns it has changed the cached and the published payload of
\* no other entry.
C17_ServiceServesLastSetup ==
    [][/\ (multi.call.pc # "awaiting_post" /\ multi'.call.pc = "awaiting_post"
             => /\ multi'.call.owner = multi.last_setup
                /\ multi'.call.token = Token(multi.last_setup)
                /\ multi'.call.system = System(multi.last_setup))
       /\ (multi.call.pc = "awaiting_post" /\ multi'.call.pc = "returned"
             => \A e \in Entries \ {multi.call.owner} :
                    /\ multi'.cache[e] = multi.cache[e]
                    /\ multi'.pub[e] = multi.pub[e])]_vars

\* A then B were set up, both got a plan at setup, and an invocation has
\* replaced the plan of B and left that of A
C17_Witness ==
    /\ multi.state = [e \in Entries |-> "loaded"]
    /\ multi.last_setup = "B"
    /\ multi.call.pc = "returned"
    /\ multi.call.owner = "B"
    /\ multi.call.token = Token("B")
    /\ multi.call.result.t = "result"
    /\ multi.call.result.success
    /\ multi.cache = [e \in Entries |-> IF e = "B" THEN PlanCharge ELSE PlanDischarge]
    /\ multi.call.body = PlanCharge

====
